---- MODULE Spec2Model ----
(***************************************************************************)
(* A model of instastreamer_go (src/main.go): the access-code gate         *)
(* (withAuth, isValidCodeFormat, validateCode), the metadata handler       *)
(* (handleVideoInfo), the code-validation endpoint (handleAuth) and the    *)
(* streaming proxy (handleStream) with its stderr-draining goroutine and   *)
(* the yt-dlp subprocess it talks to over two pipes.                       *)
(*                                                                         *)
(* Strings are sequences of one-rune strings, so that upper-casing, the    *)
(* regular expression, url.Parse and strings.Contains are computed rune by *)
(* rune. The rune U+017F (LATIN SMALL LETTER LONG S) is written "long_s".  *)
(***************************************************************************)
EXTENDS Integers, Sequences, FiniteSets, TLC

(***************************************************************************)
(* Runes and the Go string functions the program calls.                    *)
(***************************************************************************)
LowerLetters == <<"a", "b", "c", "d", "e", "f", "g", "h", "i", "j", "k", "l", "m", "n", "o", "p", "q", "r", "s", "t", "u", "v", "w", "x", "y", "z">>

UpperLetters == <<"A", "B", "C", "D", "E", "F", "G", "H", "I", "J", "K", "L", "M", "N", "O", "P", "Q", "R", "S", "T", "U", "V", "W", "X", "Y", "Z">>

Digits == {"0", "1", "2", "3", "4", "5", "6", "7", "8", "9"}

Range(s) == {s[i] : i \in 1..Len(s)}

IndexIn(s, c) == IF c \in Range(s) THEN CHOOSE i \in 1..Len(s) : s[i] = c /\ \A j \in 1..(i - 1) : s[j] # c ELSE 0

LastIndexIn(s, c) == IF c \in Range(s) THEN CHOOSE i \in 1..Len(s) : s[i] = c /\ \A j \in (i + 1)..Len(s) : s[j] # c ELSE 0

\* unicode.ToUpper on one rune: ASCII letters, and U+017F whose upper case is "S".
ToUpperRune(c) ==
  IF c \in Range(LowerLetters) THEN UpperLetters[IndexIn(LowerLetters, c)]
  ELSE IF c = "long_s" THEN "S"
  ELSE c

\* unicode.ToLower on one rune.
ToLowerRune(c) ==
  IF c \in Range(UpperLetters) THEN LowerLetters[IndexIn(UpperLetters, c)]
  ELSE c

\* strings.ToUpper
ToUpper(s) == [i \in 1..Len(s) |-> ToUpperRune(s[i])]

\* strings.ToLower
ToLower(s) == [i \in 1..Len(s) |-> ToLowerRune(s[i])]

\* strings.HasPrefix
HasPrefix(s, p) == Len(p) =< Len(s) /\ SubSeq(s, 1, Len(p)) = p

\* strings.Contains
Contains(s, sub) == \E i \in 0..(Len(s) - Len(sub)) : SubSeq(s, i + 1, i + Len(sub)) = sub

\* The suffix of s after its first n runes.
Drop(s, n) == SubSeq(s, n + 1, Len(s))

(***************************************************************************)
(* isValidCodeFormat: the pattern ^[A-Z0-9]{3}-[A-Z0-9]{3}$ matched        *)
(* against strings.ToUpper(code).                                          *)
(***************************************************************************)
CodeGroupLen == 3

\* regexp.MatchString(`^[A-Z0-9]{3}-[A-Z0-9]{3}$`, s)
MatchCodePattern(s) ==
  /\ Len(s) = 2 * CodeGroupLen + 1
  /\ s[CodeGroupLen + 1] = "-"
  /\ \A i \in (1..CodeGroupLen) \cup ((CodeGroupLen + 2)..(2 * CodeGroupLen + 1)) :
       s[i] \in Range(UpperLetters) \cup Digits

isValidCodeFormat(code) == MatchCodePattern(ToUpper(code))

(***************************************************************************)
(* Sample access codes.                                                    *)
(***************************************************************************)
\* ""
CodeEmpty == <<>>
\* "abc-123"
CodeKnownLower == <<"a", "b", "c", "-", "1", "2", "3">>
\* "ABC-123"
CodeKnownUpper == <<"A", "B", "C", "-", "1", "2", "3">>
\* "QRS-456"
CodeNoName == <<"Q", "R", "S", "-", "4", "5", "6">>
\* "XYZ-000"
CodeUnknown == <<"X", "Y", "Z", "-", "0", "0", "0">>
\* "ABCD-12"
CodeFourTwo == <<"A", "B", "C", "D", "-", "1", "2">>
\* "AB-123"
CodeTwoThree == <<"A", "B", "-", "1", "2", "3">>
\* U+017F "bc-123"
CodeLongS == <<"long_s", "b", "c", "-", "1", "2", "3">>

(***************************************************************************)
(* The DynamoDB table: the items GetItem can return, keyed by "code".      *)
(* An item may lack the "name" attribute.                                  *)
(***************************************************************************)
NoItem == [present |-> FALSE, hasName |-> FALSE, name |-> ""]

TableItem(key) ==
  IF key = CodeKnownUpper THEN [present |-> TRUE, hasName |-> TRUE, name |-> "Ada"]
  ELSE IF key = CodeNoName THEN [present |-> TRUE, hasName |-> FALSE, name |-> ""]
  ELSE NoItem

\* What one GetItem call can do: answer, or fail at transport level.
Transports == {"ok", "fail"}

GetItem(key, transport) ==
  IF transport = "fail" THEN [err |-> TRUE, item |-> NoItem]
  ELSE [err |-> FALSE, item |-> TableItem(key)]

(***************************************************************************)
(* validateCode. Beside (valid, name, err) the result records the GetItem  *)
(* call made, if any: its key and what the store answered.                 *)
(***************************************************************************)
NoCall == [called |-> FALSE, key |-> <<>>, got |-> [err |-> FALSE, item |-> NoItem]]

Call(key, r) == [called |-> TRUE, key |-> key, got |-> r]

\* name := ""; if the item has a string "name", that
ItemName(item) == IF item.hasName THEN item.name ELSE ""

\* A plausible slip: a transport failure reported as "no such code".
validateCode_SwallowErr(client, code, transport) ==
  IF client = "nil" THEN [valid |-> TRUE, name |-> "Local User", err |-> FALSE, call |-> NoCall]
  ELSE LET key == ToUpper(code)
           r == GetItem(key, transport) IN
    IF r.err \/ ~r.item.present THEN [valid |-> FALSE, name |-> "", err |-> FALSE, call |-> Call(key, r)]
    ELSE [valid |-> TRUE, name |-> ItemName(r.item), err |-> FALSE, call |-> Call(key, r)]

validateCode(client, code, transport) ==
  IF client = "nil" THEN [valid |-> TRUE, name |-> "Local User", err |-> FALSE, call |-> NoCall]
  ELSE LET key == ToUpper(code)
           r == GetItem(key, transport) IN
    IF r.err THEN [valid |-> FALSE, name |-> "", err |-> TRUE, call |-> Call(key, r)]
    ELSE IF ~r.item.present THEN [valid |-> FALSE, name |-> "", err |-> FALSE, call |-> Call(key, r)]
    ELSE [valid |-> TRUE, name |-> ItemName(r.item), err |-> FALSE, call |-> Call(key, r)]

(***************************************************************************)
(* url.Parse, as far as handleVideoInfo depends on it: the scheme (lower   *)
(* cased), the host, and whether parsing fails. Ports, IPv6 literals and   *)
(* percent escapes are not modelled; no sample URL has any.                *)
(***************************************************************************)
SchemeExtra == {"+", "-", "."}

\* Runes url.Parse refuses in a host name (those among the sample URLs).
HostInvalid == {" "}

RECURSIVE getSchemeAt(_, _)
\* net/url getScheme: scan until ':'; a rune that cannot be in a scheme ends the scan.
getSchemeAt(rawURL, i) ==
  IF i > Len(rawURL) THEN [err |-> FALSE, scheme |-> <<>>, rest |-> rawURL]
  ELSE LET c == rawURL[i] IN
    IF c \in Range(LowerLetters) \cup Range(UpperLetters) THEN getSchemeAt(rawURL, i + 1)
    ELSE IF c \in Digits \cup SchemeExtra
      THEN IF i = 1 THEN [err |-> FALSE, scheme |-> <<>>, rest |-> rawURL] ELSE getSchemeAt(rawURL, i + 1)
    ELSE IF c = ":"
      THEN IF i = 1 THEN [err |-> TRUE, scheme |-> <<>>, rest |-> <<>>]
           ELSE [err |-> FALSE, scheme |-> SubSeq(rawURL, 1, i - 1), rest |-> Drop(rawURL, i)]
    ELSE [err |-> FALSE, scheme |-> <<>>, rest |-> rawURL]

\* The text before the first occurrence of c (all of s when c does not occur).
Before(s, c) == IF IndexIn(s, c) = 0 THEN s ELSE SubSeq(s, 1, IndexIn(s, c) - 1)

ParseFailed == [err |-> TRUE, Scheme |-> <<>>, Host |-> <<>>]

urlParse(rawURL) ==
  LET s == getSchemeAt(rawURL, 1) IN
    IF s.err THEN ParseFailed
    ELSE LET scheme == ToLower(s.scheme)
             rest == Before(s.rest, "?") IN
      IF ~HasPrefix(rest, <<"/">>) /\ scheme # <<>> THEN [err |-> FALSE, Scheme |-> scheme, Host |-> <<>>]
      ELSE IF ~HasPrefix(rest, <<"/">>) /\ ":" \in Range(Before(rest, "/")) THEN ParseFailed
      ELSE IF HasPrefix(rest, <<"/", "/">>) /\ (scheme # <<>> \/ ~HasPrefix(rest, <<"/", "/", "/">>))
        THEN LET authority == Before(Drop(rest, 2), "/")
                 host == Drop(authority, LastIndexIn(authority, "@")) IN
          IF Range(host) \cap HostInvalid # {} THEN ParseFailed
          ELSE [err |-> FALSE, Scheme |-> scheme, Host |-> host]
      ELSE [err |-> FALSE, Scheme |-> scheme, Host |-> <<>>]

(***************************************************************************)
(* Sample URLs.                                                            *)
(***************************************************************************)
\* "instagram.com"
InstagramDomain == <<"i", "n", "s", "t", "a", "g", "r", "a", "m", ".", "c", "o", "m">>
\* "http"
SchemeHttp == <<"h", "t", "t", "p">>
\* "https"
SchemeHttps == <<"h", "t", "t", "p", "s">>
\* ""
UrlEmpty == <<>>
\* "https://instagram.com/p"
UrlPost == <<"h", "t", "t", "p", "s", ":", "/", "/", "i", "n", "s", "t", "a", "g", "r", "a", "m", ".", "c", "o", "m", "/", "p">>
\* "http://www.instagram.com/p"
UrlWww == <<"h", "t", "t", "p", ":", "/", "/", "w", "w", "w", ".", "i", "n", "s", "t", "a", "g", "r", "a", "m", ".", "c", "o", "m", "/", "p">>
\* "HTTPS://instagram.com/p"
UrlUpperScheme == <<"H", "T", "T", "P", "S", ":", "/", "/", "i", "n", "s", "t", "a", "g", "r", "a", "m", ".", "c", "o", "m", "/", "p">>
\* "ftp://instagram.com/p"
UrlFtp == <<"f", "t", "p", ":", "/", "/", "i", "n", "s", "t", "a", "g", "r", "a", "m", ".", "c", "o", "m", "/", "p">>
\* "https://example.com/video"
UrlOtherHost == <<"h", "t", "t", "p", "s", ":", "/", "/", "e", "x", "a", "m", "p", "l", "e", ".", "c", "o", "m", "/", "v", "i", "d", "e", "o">>
\* "instagram.com/p"
UrlRelative == <<"i", "n", "s", "t", "a", "g", "r", "a", "m", ".", "c", "o", "m", "/", "p">>
\* "://instagram.com"
UrlNoScheme == <<":", "/", "/", "i", "n", "s", "t", "a", "g", "r", "a", "m", ".", "c", "o", "m">>
\* "https://insta gram.com/"
UrlSpaceHost == <<"h", "t", "t", "p", "s", ":", "/", "/", "i", "n", "s", "t", "a", " ", "g", "r", "a", "m", ".", "c", "o", "m", "/">>
\* "https://INSTAGRAM.COM/p"
UrlUpperHost == <<"h", "t", "t", "p", "s", ":", "/", "/", "I", "N", "S", "T", "A", "G", "R", "A", "M", ".", "C", "O", "M", "/", "p">>
\* "https:instagram.com"
UrlOpaque == <<"h", "t", "t", "p", "s", ":", "i", "n", "s", "t", "a", "g", "r", "a", "m", ".", "c", "o", "m">>
\* "https://instagram.com@example.com/"
UrlUserinfo == <<"h", "t", "t", "p", "s", ":", "/", "/", "i", "n", "s", "t", "a", "g", "r", "a", "m", ".", "c", "o", "m", "@", "e", "x", "a", "m", "p", "l", "e", ".", "c", "o", "m", "/">>
\* "https://example.com/?u=instagram.com"
UrlQueryHost == <<"h", "t", "t", "p", "s", ":", "/", "/", "e", "x", "a", "m", "p", "l", "e", ".", "c", "o", "m", "/", "?", "u", "=", "i", "n", "s", "t", "a", "g", "r", "a", "m", ".", "c", "o", "m">>

SampleUrls == {UrlEmpty, UrlPost, UrlWww, UrlUpperScheme, UrlFtp, UrlOtherHost, UrlRelative, UrlNoScheme, UrlSpaceHost, UrlUpperHost, UrlOpaque, UrlUserinfo, UrlQueryHost}

(***************************************************************************)
(* HTTP status codes (net/http).                                           *)
(***************************************************************************)
StatusOK == 200

StatusBadRequest == 400

StatusUnauthorized == 401

StatusMethodNotAllowed == 405

StatusInternalServerError == 500

(***************************************************************************)
(* The yt-dlp subprocess in stream mode: the bytes it writes to its        *)
(* standard output, the lines it writes to its standard error and its exit *)
(* status. A line is its words and its length in bytes.                    *)
(***************************************************************************)
MaxBytes == 2

MaxLines == 2

\* How many bytes (stdout) or lines (stderr) a pipe holds before a write to it blocks.
PipeCap == 1

\* bufio.MaxScanTokenSize: the longest line a bufio.Scanner made by NewScanner returns.
MaxScanTokenSize == 65536

Bytes == {0, 1}

LineError == [words |-> <<"ERROR:", "unsupported">>, bytes |-> 18]

LineProgress == [words |-> <<"[download]", "50%">>, bytes |-> 14]

LineRetry == [words |-> <<"WARNING:", "[download]", "retry">>, bytes |-> 25]

LineHuge == [words |-> <<"ERROR:", "dump">>, bytes |-> 70000]

Lines == {LineError, LineProgress, LineRetry, LineHuge}

SeqsUpTo(S, n) == UNION {[1..k -> S] : k \in 0..n}

ExitCodes == {0, 1}

Scripts == [out : SeqsUpTo(Bytes, MaxBytes), err : SeqsUpTo(Lines, MaxLines), exit : ExitCodes]

\* The one script of the specification that ranges over requests.
OneScript == [out |-> <<1>>, err |-> <<LineError>>, exit |-> 0]

\* strings.Contains(line, "[download]"), on the words of a line
HasMarker(line) == "[download]" \in Range(line.words)

(***************************************************************************)
(* The yt-dlp subprocess in describe mode (-j): it fails, or prints text   *)
(* that is not JSON, or prints an object whose "url", "title" and "ext"    *)
(* are each absent, not a string, or a string.                             *)
(***************************************************************************)
FieldKinds == {"absent", "number", "string"}

InfoResults == [exit : ExitCodes, json : BOOLEAN, url : FieldKinds, title : FieldKinds, ext : FieldKinds]

\* info[key].(string) with the fallback the handler gives the field
Field(kind, value, fallback) == IF kind = "string" THEN value ELSE fallback

(***************************************************************************)
(* State.                                                                  *)
(***************************************************************************)
VARIABLES
  dynamoClient,  \* "nil" or "client": the package variable after initDynamoDB
  req,           \* the request being served
  ytdlp,         \* what the subprocess does in stream mode
  pc,            \* where the request is: "gate", "next", "auth", "copy_read", "copy_write", "wait", "done"
  status,        \* the response status sent, 0 while none
  headers,       \* the response headers set
  errBody,       \* the text written by http.Error, "" when none
  jsonBody,      \* <<the JSON object written>>, or <<>>
  streamBody,    \* the bytes written to the response by io.Copy
  nextCalled,    \* the wrapped handler was invoked
  lookups,       \* the keys of the GetItem calls made
  spawned,       \* the yt-dlp commands started
  log,           \* the operational log
  proc,          \* "none", "running", "exited"
  outPos,        \* bytes the subprocess has written to stdout
  errPos,        \* lines the subprocess has written to stderr
  stdoutPipe,    \* written to stdout, not yet read
  stderrPipe,    \* written to stderr, not yet read
  stderrOpen,    \* the parent's read end of the stderr pipe is open
  buf,           \* the chunk io.Copy has read and not yet written
  written,       \* io.Copy's byte count
  connected,     \* the client is still connected
  drain,         \* the stderr goroutine: "none", "scanning", "ended"
  reaped         \* cmd.Wait has returned

vars == <<dynamoClient, req, ytdlp, pc, status, headers, errBody, jsonBody, streamBody, nextCalled, lookups, spawned, log, proc, outPos, errPos, stdoutPipe, stderrPipe, stderrOpen, buf, written, connected, drain, reaped>>

respVars == <<status, headers, errBody, jsonBody>>

procVars == <<proc, outPos, errPos, stdoutPipe, stderrPipe, stderrOpen, drain, reaped>>

copyVars == <<buf, written, streamBody>>

Gated == {"/api/info", "/api/stream"}

LogEntry(msg, line, n) == [msg |-> msg, line |-> line, n |-> n]

NoLine == [words |-> <<>>, bytes |-> 0]

\* The status the server sends when the handler returns having written none.
Finish(st) == IF st = 0 THEN StatusOK ELSE st

ContentType(v) == <<"Content-Type", v>>

\* http.Error(w, msg, code)
HttpError(msg, code) ==
  /\ status' = code
  /\ errBody' = msg
  /\ headers' = {ContentType("text/plain; charset=utf-8")}
  /\ UNCHANGED jsonBody

(***************************************************************************)
(* withAuth: what the gate decides for a request, and the GetItem call it  *)
(* makes on the way.                                                       *)
(***************************************************************************)
\* r.Header.Get("X-Auth-Code"), else r.URL.Query().Get("auth")
PresentedCode(r) == IF r.header # <<>> THEN r.header ELSE r.query

GateResult(result, call) == [result |-> result, call |-> call]

\* The record of one GetItem call in the history of calls.
Lookup(call) == [key |-> call.key, got |-> call.got]

\* A plausible slip: no bypass when the client is nil.
gate_NoBypass(client, r, transport) ==
  LET authCode == PresentedCode(r) IN
    IF authCode = <<>> THEN GateResult("missing", NoCall)
    ELSE IF ~isValidCodeFormat(authCode) THEN GateResult("format", NoCall)
    ELSE LET v == validateCode(client, authCode, transport) IN
      IF v.err THEN GateResult("error", v.call)
      ELSE IF ~v.valid THEN GateResult("invalid", v.call)
      ELSE GateResult("next", v.call)

\* A plausible slip: the result of the lookup not checked.
gate_IgnoreValid(client, r, transport) ==
  LET authCode == PresentedCode(r) IN
    IF client = "nil" THEN GateResult("next", NoCall)
    ELSE IF authCode = <<>> THEN GateResult("missing", NoCall)
    ELSE IF ~isValidCodeFormat(authCode) THEN GateResult("format", NoCall)
    ELSE LET v == validateCode(client, authCode, transport) IN
      IF v.err THEN GateResult("error", v.call)
      ELSE GateResult("next", v.call)

gate(client, r, transport) ==
  LET authCode == PresentedCode(r) IN
    IF client = "nil" THEN GateResult("next", NoCall)
    ELSE IF authCode = <<>> THEN GateResult("missing", NoCall)
    ELSE IF ~isValidCodeFormat(authCode) THEN GateResult("format", NoCall)
    ELSE LET v == validateCode(client, authCode, transport) IN
      IF v.err THEN GateResult("error", v.call)
      ELSE IF ~v.valid THEN GateResult("invalid", v.call)
      ELSE GateResult("next", v.call)

\* The handler withAuth returns, run on the request.
WithAuth ==
  /\ pc = "gate"
  /\ \E transport \in Transports :
       LET g == gate(dynamoClient, req, transport) IN
         /\ lookups' = IF g.call.called THEN Append(lookups, Lookup(g.call)) ELSE lookups
         /\ CASE g.result = "next" ->
                   /\ pc' = "next"
                   /\ nextCalled' = TRUE
                   /\ UNCHANGED <<respVars, log>>
              [] g.result = "missing" ->
                   /\ HttpError("Unauthorized: missing auth code", StatusUnauthorized)
                   /\ pc' = "done"
                   /\ UNCHANGED <<nextCalled, log>>
              [] g.result = "format" ->
                   /\ HttpError("Unauthorized: invalid auth code format", StatusUnauthorized)
                   /\ pc' = "done"
                   /\ UNCHANGED <<nextCalled, log>>
              [] g.result = "error" ->
                   /\ HttpError("Internal server error", StatusInternalServerError)
                   /\ log' = Append(log, LogEntry("Auth validation error", NoLine, 0))
                   /\ pc' = "done"
                   /\ UNCHANGED nextCalled
              [] g.result = "invalid" ->
                   /\ HttpError("Unauthorized: invalid auth code", StatusUnauthorized)
                   /\ pc' = "done"
                   /\ UNCHANGED <<nextCalled, log>>
  /\ UNCHANGED <<dynamoClient, req, ytdlp, streamBody, spawned, procVars, buf, written, connected>>

(***************************************************************************)
(* handleAuth (POST /api/auth): always answers 200 with a JSON envelope.   *)
(***************************************************************************)
AuthResponse(valid, name, error) == [Valid |-> valid, Name |-> name, Error |-> error]

\* The envelope for a decodable body carrying `code`.
authReply(client, code, transport) ==
  IF code = <<>> THEN [resp |-> AuthResponse(FALSE, "", "Code is required"), call |-> NoCall, err |-> FALSE]
  ELSE IF ~isValidCodeFormat(code) THEN [resp |-> AuthResponse(FALSE, "", "Invalid code format. Expected: XXX-XXX"), call |-> NoCall, err |-> FALSE]
  ELSE LET v == validateCode(client, code, transport) IN
    IF v.err THEN [resp |-> AuthResponse(FALSE, "", "Failed to validate code"), call |-> v.call, err |-> TRUE]
    ELSE IF ~v.valid THEN [resp |-> AuthResponse(FALSE, "", "Invalid code"), call |-> v.call, err |-> FALSE]
    ELSE [resp |-> AuthResponse(TRUE, v.name, ""), call |-> v.call, err |-> FALSE]

HandleAuth ==
  /\ pc = "auth"
  /\ pc' = "done"
  /\ IF req.method # "POST"
       THEN /\ HttpError("Method not allowed", StatusMethodNotAllowed)
            /\ UNCHANGED <<lookups, log>>
       ELSE IF ~req.bodyOk
         THEN /\ status' = StatusOK
              /\ headers' = {ContentType("application/json")}
              /\ jsonBody' = <<AuthResponse(FALSE, "", "Invalid request body")>>
              /\ UNCHANGED <<errBody, lookups, log>>
         ELSE \E transport \in Transports :
                LET a == authReply(dynamoClient, req.code, transport) IN
                  /\ status' = StatusOK
                  /\ headers' = {ContentType("application/json")}
                  /\ jsonBody' = <<a.resp>>
                  /\ lookups' = IF a.call.called THEN Append(lookups, Lookup(a.call)) ELSE lookups
                  /\ log' = IF a.err THEN Append(log, LogEntry("DynamoDB error", NoLine, 0)) ELSE log
                  /\ UNCHANGED errBody
  /\ UNCHANGED <<dynamoClient, req, ytdlp, streamBody, nextCalled, spawned, procVars, buf, written, connected>>

(***************************************************************************)
(* handleVideoInfo (POST /api/info).                                       *)
(***************************************************************************)
Accepted == [status |-> 0, msg |-> ""]

Rejected(code, msg) == [status |-> code, msg |-> msg]

\* A plausible slip: the Instagram host check left out.
videoInfoCheck_NoDomain(r) ==
  IF r.method # "POST" THEN Rejected(StatusMethodNotAllowed, "Method not allowed")
  ELSE IF ~r.bodyOk THEN Rejected(StatusBadRequest, "Invalid request body")
  ELSE IF r.url = <<>> THEN Rejected(StatusBadRequest, "URL is required")
  ELSE LET parsedURL == urlParse(r.url) IN
    IF parsedURL.err \/ parsedURL.Scheme = <<>> \/ parsedURL.Host = <<>> THEN Rejected(StatusBadRequest, "Invalid URL format")
    ELSE IF parsedURL.Scheme # SchemeHttp /\ parsedURL.Scheme # SchemeHttps THEN Rejected(StatusBadRequest, "URL must use http or https scheme")
    ELSE Accepted

\* The checks made before yt-dlp is run.
videoInfoCheck(r) ==
  IF r.method # "POST" THEN Rejected(StatusMethodNotAllowed, "Method not allowed")
  ELSE IF ~r.bodyOk THEN Rejected(StatusBadRequest, "Invalid request body")
  ELSE IF r.url = <<>> THEN Rejected(StatusBadRequest, "URL is required")
  ELSE LET parsedURL == urlParse(r.url) IN
    IF parsedURL.err \/ parsedURL.Scheme = <<>> \/ parsedURL.Host = <<>> THEN Rejected(StatusBadRequest, "Invalid URL format")
    ELSE IF parsedURL.Scheme # SchemeHttp /\ parsedURL.Scheme # SchemeHttps THEN Rejected(StatusBadRequest, "URL must use http or https scheme")
    ELSE IF ~Contains(parsedURL.Host, InstagramDomain) THEN Rejected(StatusBadRequest, "URL must be an Instagram URL")
    ELSE Accepted

VideoInfo(res) == [URL |-> Field(res.url, "https://cdn.example/v.mp4", ""), Title |-> Field(res.title, "t1", "video"), Extension |-> Field(res.ext, "webm", "mp4")]

HandleVideoInfo ==
  /\ pc = "next"
  /\ req.endpoint = "/api/info"
  /\ pc' = "done"
  /\ LET c == videoInfoCheck(req) IN
       IF c.status # 0
         THEN /\ HttpError(c.msg, c.status)
              /\ UNCHANGED <<spawned, log>>
         ELSE \E res \in InfoResults :
                /\ spawned' = Append(spawned, [mode |-> "-j", url |-> req.url])
                /\ IF res.exit # 0
                     THEN /\ HttpError("Failed to get video info", StatusInternalServerError)
                          /\ log' = Append(log, LogEntry("yt-dlp error", NoLine, 0))
                     ELSE IF ~res.json
                       THEN /\ HttpError("Failed to parse video info", StatusInternalServerError)
                            /\ UNCHANGED log
                       ELSE /\ status' = StatusOK
                            /\ headers' = {ContentType("application/json")}
                            /\ jsonBody' = <<VideoInfo(res)>>
                            /\ UNCHANGED <<errBody, log>>
  /\ UNCHANGED <<dynamoClient, req, ytdlp, streamBody, nextCalled, lookups, procVars, buf, written, connected>>

(***************************************************************************)
(* handleStream (GET /api/stream), in the steps other activities can       *)
(* interleave with: the start, each read and each write of io.Copy, and    *)
(* cmd.Wait.                                                               *)
(***************************************************************************)
\* The one check made before yt-dlp is started.
streamCheck(r) ==
  IF r.url = <<>> THEN Rejected(StatusBadRequest, "URL parameter is required")
  ELSE Accepted

\* What creating the pipes and starting the command can do.
StartResults == {"ok", "stdout pipe", "stderr pipe", "start"}

StreamHeaders == {ContentType("video/mp4"), <<"Transfer-Encoding", "chunked">>, <<"Cache-Control", "no-cache">>}

HandleStreamStart ==
  /\ pc = "next"
  /\ req.endpoint = "/api/stream"
  /\ LET c == streamCheck(req) IN
       IF c.status # 0
         THEN /\ HttpError(c.msg, c.status)
              /\ pc' = "done"
              /\ UNCHANGED <<spawned, log, proc, drain, stderrOpen>>
         ELSE \E res \in StartResults :
                IF res # "ok"
                  THEN /\ HttpError("Failed to start download", StatusInternalServerError)
                       /\ log' = log \o <<LogEntry("Streaming video from", NoLine, 0), LogEntry("Failed: " \o res, NoLine, 0)>>
                       /\ pc' = "done"
                       /\ UNCHANGED <<spawned, proc, drain, stderrOpen>>
                  ELSE /\ spawned' = Append(spawned, [mode |-> "-o -", url |-> req.url])
                       /\ log' = Append(log, LogEntry("Streaming video from", NoLine, 0))
                       /\ proc' = "running"
                       /\ stderrOpen' = TRUE
                       /\ drain' = "scanning"
                       /\ headers' = StreamHeaders
                       /\ pc' = "copy_read"
                       /\ UNCHANGED <<status, errBody, jsonBody>>
  /\ UNCHANGED <<dynamoClient, req, ytdlp, streamBody, nextCalled, lookups, outPos, errPos, stdoutPipe, stderrPipe, reaped, buf, written, connected>>

\* io.Copy reads what the pipe holds, up to its buffer. A read of an open pipe
\* blocks while the pipe is empty and the writer lives, and does not fail.
CopyRead ==
  /\ pc = "copy_read"
  /\ stdoutPipe # <<>>
  /\ \E k \in 1..Len(stdoutPipe) :
       /\ buf' = SubSeq(stdoutPipe, 1, k)
       /\ stdoutPipe' = Drop(stdoutPipe, k)
  /\ pc' = "copy_write"
  /\ UNCHANGED <<dynamoClient, req, ytdlp, respVars, streamBody, nextCalled, lookups, spawned, log, proc, outPos, errPos, stderrPipe, stderrOpen, written, connected, drain, reaped>>

\* The read that finds the pipe empty and its writer gone: io.Copy returns nil.
CopyEOF ==
  /\ pc = "copy_read"
  /\ stdoutPipe = <<>>
  /\ proc = "exited"
  /\ pc' = "wait"
  /\ UNCHANGED <<dynamoClient, req, ytdlp, respVars, copyVars, nextCalled, lookups, spawned, log, procVars, connected>>

\* A plausible slip: a chunk's last byte not written.
forward_Short(body, chunk) == body \o SubSeq(chunk, 1, Len(chunk) - 1)

\* w.Write(chunk)
forward(body, chunk) == body \o chunk

CopyWrite ==
  /\ pc = "copy_write"
  /\ connected
  /\ streamBody' = forward(streamBody, buf)
  /\ written' = written + Len(buf)
  /\ buf' = <<>>
  /\ status' = Finish(status)
  /\ pc' = "copy_read"
  /\ UNCHANGED <<dynamoClient, req, ytdlp, headers, errBody, jsonBody, nextCalled, lookups, spawned, log, procVars, connected>>

\* The write to a client that is gone fails: io.Copy returns the error and
\* the handler logs it and returns.
CopyWriteError ==
  /\ pc = "copy_write"
  /\ ~connected
  /\ log' = Append(log, LogEntry("Error streaming video", NoLine, 0))
  /\ status' = Finish(status)
  /\ pc' = "done"
  /\ UNCHANGED <<dynamoClient, req, ytdlp, headers, errBody, jsonBody, copyVars, nextCalled, lookups, spawned, procVars, connected>>

ClientDisconnect ==
  /\ pc \in {"copy_read", "copy_write"}
  /\ connected
  /\ connected' = FALSE
  /\ UNCHANGED <<dynamoClient, req, ytdlp, pc, respVars, copyVars, nextCalled, lookups, spawned, log, procVars>>

\* cmd.Wait returns once the command has exited; it then closes the parent's
\* ends of the pipes, and what was not read from them is lost. A non-zero exit
\* is logged; nothing is written to the response.
Wait ==
  /\ pc = "wait"
  /\ proc = "exited"
  /\ reaped' = TRUE
  /\ stderrOpen' = FALSE
  /\ stderrPipe' = <<>>
  /\ log' = log \o (IF ytdlp.exit # 0 THEN <<LogEntry("yt-dlp process error", NoLine, ytdlp.exit)>> ELSE <<>>)
                \o <<LogEntry("Streamed bytes", NoLine, written)>>
  /\ status' = Finish(status)
  /\ pc' = "done"
  /\ UNCHANGED <<dynamoClient, req, ytdlp, headers, errBody, jsonBody, copyVars, nextCalled, lookups, spawned, proc, outPos, errPos, stdoutPipe, connected, drain>>

(***************************************************************************)
(* The goroutine that scans the subprocess's standard error.               *)
(***************************************************************************)
\* if !strings.Contains(line, "[download]")
logged(line) == ~HasMarker(line)

\* scanner.Scan() returns a line, or false for a line longer than the
\* scanner's buffer may grow, which ends the loop.
DrainLine ==
  /\ drain = "scanning"
  /\ stderrOpen
  /\ stderrPipe # <<>>
  /\ stderrPipe' = Tail(stderrPipe)
  /\ LET line == Head(stderrPipe) IN
       IF line.bytes > MaxScanTokenSize
         THEN /\ drain' = "ended"
              /\ UNCHANGED log
         ELSE /\ log' = IF logged(line) THEN Append(log, LogEntry("yt-dlp: ", line, 0)) ELSE log
              /\ UNCHANGED drain
  /\ UNCHANGED <<dynamoClient, req, ytdlp, pc, respVars, copyVars, nextCalled, lookups, spawned, proc, outPos, errPos, stdoutPipe, stderrOpen, connected, reaped>>

\* scanner.Scan() returns false at the end of the stream: the pipe is empty
\* and the subprocess has exited.
DrainEOF ==
  /\ drain = "scanning"
  /\ stderrOpen
  /\ stderrPipe = <<>>
  /\ proc = "exited"
  /\ drain' = "ended"
  /\ UNCHANGED <<dynamoClient, req, ytdlp, pc, respVars, copyVars, nextCalled, lookups, spawned, log, proc, outPos, errPos, stdoutPipe, stderrPipe, stderrOpen, connected, reaped>>

\* scanner.Scan() returns false because cmd.Wait closed the pipe.
DrainClosed ==
  /\ drain = "scanning"
  /\ ~stderrOpen
  /\ drain' = "ended"
  /\ UNCHANGED <<dynamoClient, req, ytdlp, pc, respVars, copyVars, nextCalled, lookups, spawned, log, proc, outPos, errPos, stdoutPipe, stderrPipe, stderrOpen, connected, reaped>>

(***************************************************************************)
(* The subprocess: it writes its output and its diagnostics in any order,  *)
(* blocks on a full pipe, and exits when it has written both.              *)
(***************************************************************************)
ProcWriteStdout ==
  /\ proc = "running"
  /\ outPos < Len(ytdlp.out)
  /\ Len(stdoutPipe) < PipeCap
  /\ stdoutPipe' = Append(stdoutPipe, ytdlp.out[outPos + 1])
  /\ outPos' = outPos + 1
  /\ UNCHANGED <<dynamoClient, req, ytdlp, pc, respVars, copyVars, nextCalled, lookups, spawned, log, proc, errPos, stderrPipe, stderrOpen, connected, drain, reaped>>

ProcWriteStderr ==
  /\ proc = "running"
  /\ errPos < Len(ytdlp.err)
  /\ Len(stderrPipe) < PipeCap
  /\ stderrPipe' = Append(stderrPipe, ytdlp.err[errPos + 1])
  /\ errPos' = errPos + 1
  /\ UNCHANGED <<dynamoClient, req, ytdlp, pc, respVars, copyVars, nextCalled, lookups, spawned, log, proc, outPos, stdoutPipe, stderrOpen, connected, drain, reaped>>

ProcExit ==
  /\ proc = "running"
  /\ outPos = Len(ytdlp.out)
  /\ errPos = Len(ytdlp.err)
  /\ proc' = "exited"
  /\ UNCHANGED <<dynamoClient, req, ytdlp, pc, respVars, copyVars, nextCalled, lookups, spawned, log, outPos, errPos, stdoutPipe, stderrPipe, stderrOpen, connected, drain, reaped>>

(***************************************************************************)
(* Requests and specifications.                                            *)
(***************************************************************************)
Methods == {"GET", "POST"}

HeaderCodes == {CodeEmpty, CodeKnownLower, CodeNoName, CodeUnknown, CodeFourTwo, CodeLongS}

QueryCodes == {CodeEmpty, CodeKnownUpper, CodeTwoThree}

\* Requests to the gated endpoints. The URL is the "url" field of the JSON
\* body for /api/info and the "url" query parameter for /api/stream; a body
\* that is not JSON carries none.
GateRequests ==
  {r \in [endpoint : Gated, method : Methods, header : HeaderCodes, query : QueryCodes, bodyOk : BOOLEAN, url : SampleUrls, code : {CodeEmpty}] :
     ~r.bodyOk => (r.endpoint = "/api/info" /\ r.url = UrlEmpty)}

StreamRequests == [endpoint : {"/api/stream"}, method : {"GET"}, header : {CodeKnownLower}, query : {CodeEmpty}, bodyOk : {TRUE}, url : {UrlPost}, code : {CodeEmpty}]

MaxCodeLen == 7

CodeRunes == {"a", "B", "1", "-", "long_s"}

AuthRequests == [endpoint : {"/api/auth"}, method : Methods, header : {CodeEmpty}, query : {CodeEmpty}, bodyOk : {TRUE}, url : {UrlEmpty}, code : SeqsUpTo(CodeRunes, MaxCodeLen)]

Entry(r) == IF r.endpoint \in Gated THEN "gate" ELSE "auth"

InitWith(requests, scripts) ==
  /\ dynamoClient \in {"nil", "client"}
  /\ req \in requests
  /\ ytdlp \in scripts
  /\ pc = Entry(req)
  /\ status = 0
  /\ headers = {}
  /\ errBody = ""
  /\ jsonBody = <<>>
  /\ streamBody = <<>>
  /\ nextCalled = FALSE
  /\ lookups = <<>>
  /\ spawned = <<>>
  /\ log = <<>>
  /\ proc = "none"
  /\ outPos = 0
  /\ errPos = 0
  /\ stdoutPipe = <<>>
  /\ stderrPipe = <<>>
  /\ stderrOpen = FALSE
  /\ buf = <<>>
  /\ written = 0
  /\ connected = TRUE
  /\ drain = "none"
  /\ reaped = FALSE

StreamSteps == HandleStreamStart \/ CopyRead \/ CopyEOF \/ CopyWrite \/ CopyWriteError \/ ClientDisconnect \/ Wait \/ DrainLine \/ DrainEOF \/ DrainClosed \/ ProcWriteStdout \/ ProcWriteStderr \/ ProcExit

\* Every request to a gated endpoint, with one subprocess behaviour.
Init == InitWith(GateRequests, {OneScript})

Next == WithAuth \/ HandleVideoInfo \/ StreamSteps

Spec == Init /\ [][Next]_vars

\* One stream request, with every subprocess behaviour within the bounds.
InitStream == InitWith(StreamRequests, Scripts)

NextStream == WithAuth \/ StreamSteps

SpecStream == InitStream /\ [][NextStream]_vars

\* Every code of at most MaxCodeLen runes, posted to /api/auth.
InitFmt == InitWith(AuthRequests, {OneScript})

NextFmt == HandleAuth

SpecFmt == InitFmt /\ [][NextFmt]_vars

(***************************************************************************)
(* Properties of the gate (checked under Spec).                            *)
(***************************************************************************)
\* The code matches XXX-XXX once upper-cased.
WellFormed(code) == MatchCodePattern(ToUpper(code))

GateDone == pc # "gate"

\* C1: with the store client configured, the wrapped handler is invoked only
\* for a presented code (the header, else the query parameter) that is not
\* empty, matches XXX-XXX once upper-cased, and whose upper-cased form the one
\* store lookup returned a record for without error; a missing, malformed or
\* unknown (looked up and absent) code never reaches the handler and is
\* answered 401.
C1_GateAdmitsOnlyKnownCodes ==
  dynamoClient = "client" =>
    LET code == PresentedCode(req) IN
      /\ nextCalled =>
           /\ code # <<>>
           /\ WellFormed(code)
           /\ Len(lookups) = 1
           /\ lookups[1].key = ToUpper(code)
           /\ ~lookups[1].got.err
           /\ lookups[1].got.item.present
      /\ (GateDone /\ (code = <<>> \/ ~WellFormed(code))) => (~nextCalled /\ status = StatusUnauthorized)
      /\ (GateDone /\ lookups # <<>> /\ ~lookups[1].got.err /\ ~lookups[1].got.item.present) => (~nextCalled /\ status = StatusUnauthorized)

\* C1 witness: a configured gate has admitted a request whose header is empty
\* and whose query parameter carries a known code.
C1_Witness ==
  /\ dynamoClient = "client"
  /\ nextCalled
  /\ req.header = CodeEmpty
  /\ req.query = CodeKnownUpper
  /\ lookups # <<>>

\* C2: with the store client absent, every request to a gated endpoint
\* reaches the wrapped handler, whatever its code, and no lookup is made.
C2_NilClientBypasses ==
  dynamoClient = "nil" =>
    /\ lookups = <<>>
    /\ GateDone => nextCalled

\* C2 witness: the wrapped handler was reached, with the client absent, by a
\* request whose code is malformed.
C2_Witness ==
  /\ dynamoClient = "nil"
  /\ nextCalled
  /\ req.header = CodeFourTwo
  /\ req.endpoint \in Gated

\* C3: a lookup that fails at transport level is answered 500 and one that
\* finds no record 401, the wrapped handler invoked in neither case; and
\* validateCode returns an error exactly for a transport failure and
\* (false, no error) exactly for an absent record.
C3_TransportFailureDistinct ==
  /\ (dynamoClient = "client" /\ GateDone /\ lookups # <<>> /\ lookups[1].got.err) =>
       (status = StatusInternalServerError /\ ~nextCalled)
  /\ (dynamoClient = "client" /\ GateDone /\ lookups # <<>> /\ ~lookups[1].got.err /\ ~lookups[1].got.item.present) =>
       (status = StatusUnauthorized /\ ~nextCalled)
  /\ \A transport \in Transports :
       LET v == validateCode("client", PresentedCode(req), transport) IN
         /\ v.err <=> transport = "fail"
         /\ (~v.valid /\ ~v.err) <=> (transport = "ok" /\ ~TableItem(ToUpper(PresentedCode(req))).present)

\* C3 witness: a well-formed code was looked up, the lookup failed, and the
\* request was answered 500.
C3_Witness ==
  /\ dynamoClient = "client"
  /\ pc = "done"
  /\ lookups # <<>>
  /\ lookups[1].got.err
  /\ status = StatusInternalServerError

\* The URL is empty, or is not an absolute http or https URL, or its host
\* does not contain "instagram.com".
BadUrl(u) ==
  \/ u = <<>>
  \/ urlParse(u).err
  \/ urlParse(u).Scheme \notin {SchemeHttp, SchemeHttps}
  \/ urlParse(u).Host = <<>>
  \/ ~Contains(urlParse(u).Host, InstagramDomain)

InfoHandled == req.endpoint = "/api/info" /\ nextCalled /\ pc = "done"

\* C7 as stated: a request to a gated endpoint whose input is invalid (a
\* malformed code presented to a configured gate, a missing URL, a malformed
\* URL, a URL of another domain) is rejected with a 4xx status before any
\* subprocess is started and before any store lookup is made.
C7_ValidationBeforeCalls ==
  LET code == PresentedCode(req)
      invalid == \/ (dynamoClient = "client" /\ code # <<>> /\ ~WellFormed(code))
                 \/ BadUrl(req.url)
  IN invalid =>
       /\ spawned = <<>>
       /\ lookups = <<>>
       /\ pc = "done" => status \in {StatusBadRequest, StatusUnauthorized, StatusMethodNotAllowed}

Started == proc # "none"

WriteFailed == LogEntry("Error streaming video", NoLine, 0) \in Range(log)

\* The lines the goroutine has forwarded to the log, in order.
Forwarded == SelectSeq(log, LAMBDA e : e.msg = "yt-dlp: ")

ForwardedLines == [i \in 1..Len(Forwarded) |-> Forwarded[i].line]

\* C4 as stated: when handleStream has returned after starting the
\* subprocess, the subprocess has been waited for.
C4_StartedIsReaped == (pc = "done" /\ Started) => reaped

\* C5: when the handler has returned from a started stream and no write to
\* the client failed, the subprocess has exited, the response body is exactly
\* the bytes it wrote, in order, their number is the logged count, and
\* whatever the exit status the response is 200 with the stream headers and
\* no error text; a non-zero exit is logged, and only then.
C5_ExactBytesForwarded ==
  (pc = "done" /\ Started /\ ~WriteFailed) =>
    /\ proc = "exited"
    /\ streamBody = ytdlp.out
    /\ SelectSeq(log, LAMBDA e : e.msg = "Streamed bytes") = <<LogEntry("Streamed bytes", NoLine, Len(ytdlp.out))>>
    /\ status = StatusOK
    /\ headers = StreamHeaders
    /\ errBody = ""
    /\ jsonBody = <<>>
    /\ (LogEntry("yt-dlp process error", NoLine, ytdlp.exit) \in Range(log)) <=> (ytdlp.exit # 0)

\* C5 witness: a subprocess that wrote two different bytes and exited
\* non-zero; the handler has returned and both bytes are in the response.
C5_Witness ==
  /\ pc = "done"
  /\ reaped
  /\ ytdlp.exit # 0
  /\ Len(ytdlp.out) >= 2
  /\ ytdlp.out[1] # ytdlp.out[2]
  /\ Len(streamBody) >= 2

\* C6 as stated: no line with the marker is ever logged, and once the
\* subprocess has exited and the goroutine has ended, every line without the
\* marker that the subprocess wrote has been logged.
C6_AllAnomaliesLogged ==
  /\ \A i \in 1..Len(ForwardedLines) : ~HasMarker(ForwardedLines[i])
  /\ (proc = "exited" /\ drain = "ended") =>
       ForwardedLines = SelectSeq(ytdlp.err, LAMBDA l : ~HasMarker(l))

\* The subprocess's standard error is closed: the parent closed its end, or
\* the subprocess has exited and everything it wrote was read.
StderrAtEnd == ~stderrOpen \/ (proc = "exited" /\ stderrPipe = <<>>)

\* The subprocess is blocked writing a diagnostic line that nobody will read.
BlockedOnStderr ==
  /\ proc = "running"
  /\ errPos < Len(ytdlp.err)
  /\ Len(stderrPipe) >= PipeCap
  /\ drain = "ended"

\* C10 as stated: the goroutine stops reading only when the stream is closed,
\* so the subprocess is never blocked on a diagnostic write that no one reads
\* while the copy loop is running.
C10_DrainsUntilClosed ==
  /\ drain = "ended" => StderrAtEnd
  /\ ~(BlockedOnStderr /\ pc \in {"copy_read", "copy_write"})

(***************************************************************************)
(* The code format (checked under SpecFmt).                                *)
(***************************************************************************)
\* [A-Za-z0-9]{3}-[A-Za-z0-9]{3}
MatchesMixedCase(s) ==
  /\ Len(s) = 7
  /\ s[4] = "-"
  /\ \A i \in {1, 2, 3, 5, 6, 7} : s[i] \in Range(UpperLetters) \cup Range(LowerLetters) \cup Digits

\* C9 as stated: isValidCodeFormat is true of exactly the strings that match
\* [A-Za-z0-9]{3}-[A-Za-z0-9]{3}; so a posted code is refused as badly
\* formatted exactly when it is not empty and does not match.
C9_FormatIsThePattern ==
  (pc = "done" /\ req.method = "POST") =>
    /\ isValidCodeFormat(req.code) <=> MatchesMixedCase(req.code)
    /\ (jsonBody[1].Error = "Invalid code format. Expected: XXX-XXX") <=> (req.code # <<>> /\ ~MatchesMixedCase(req.code))

====
